---------------------------- MODULE Spec2Model ----------------------------
(***************************************************************************)
(* A model of convert_statement.py: the reconstruction of bank statement   *)
(* records from the positioned words of a PDF, and the command-line entry  *)
(* point around it.                                                        *)
(*                                                                         *)
(* A Python str is modelled as a sequence of one-character strings, so     *)
(* that the text functions (_normalise_whitespace, _parse_amount, the      *)
(* regular expressions) are computed character by character as the code    *)
(* computes them.  "" is the empty sequence.                               *)
(***************************************************************************)
EXTENDS Integers, Sequences, FiniteSets, TLC

VARIABLES
    pc,         \* position of main() / extract_statement_records; the
                \* run has ended at "usage_error", "open_failed",
                \* "page_failed", "parse_failed" and "done"
    args,       \* the parsed command line: [csv, excel]
    exitCode,   \* process exit status once the run has ended (-1: running)
    files,      \* the output files written so far, a subset of {"csv","excel"}
    heap,       \* the record dicts allocated so far: object id -> dict
    records,    \* the list `records`: a sequence of object ids (references)
    current,    \* the variable `current`: an object id, or None
    pagesDone,  \* position of the iterator over pdf.pages
    linesDone,  \* number of lines of the document scanned so far
    df,         \* the DataFrame returned by extract_statement_records
    hist,       \* history: object id -> the page and the Lines that built it
    pageLog,    \* history: per page begun, the Lines scanned on it
    arg,        \* input of the text function under check
    result,     \* its output (_normalise_whitespace: the outputs so far)
    fpc         \* position of the text-function check

vars == <<pc, args, exitCode, files, heap, records, current, pagesDone,
          linesDone, df, hist, pageLog, arg, result, fpc>>

mainVars == <<pc, args, exitCode, files, heap, records, current, pagesDone,
              linesDone, df, hist, pageLog>>

fnVars == <<arg, result, fpc>>

---------------------------------------------------------------------------
(* Bounds of the model.                                                    *)

MaxPages == 2       \* pages of a document
MaxLines == 3       \* Lines of a document, over all its pages
MaxStrLen == 4      \* length of the strings given to _normalise_whitespace
MaxAmountLen == 4   \* length of the strings given to _parse_amount
MaxWords == 3       \* words of a page given to the grouping pass
MaxTop == 7         \* largest top of a word, in half points

---------------------------------------------------------------------------
(* Characters and strings.                                                 *)

None == 0

Digits == {"0", "1", "2", "3", "4", "5", "6", "7", "8", "9"}

IsDigit(c) == c \in Digits

DigitVal(c) ==
    CASE c = "0" -> 0 [] c = "1" -> 1 [] c = "2" -> 2 [] c = "3" -> 3
      [] c = "4" -> 4 [] c = "5" -> 5 [] c = "6" -> 6 [] c = "7" -> 7
      [] c = "8" -> 8 [] c = "9" -> 9

\* The characters \s matches and str.strip() removes.
IsSpace(c) == c \in {" ", "\t", "\n"}

Lower(c) ==
    CASE c = "N" -> "n" [] c = "A" -> "a" [] c = "S" -> "s" [] c = "E" -> "e"
      [] c = "I" -> "i" [] c = "F" -> "f" [] c = "T" -> "t" [] c = "Y" -> "y"
      [] OTHER -> c

RECURSIVE SeqsUpTo(_, _)
\* All sequences over alphabet A of length at most n.
SeqsUpTo(A, n) ==
    IF n = 0 THEN {<<>>}
    ELSE LET shorter == SeqsUpTo(A, n - 1)
         IN  shorter \cup {Append(s, c) : s \in shorter, c \in A}

\* str.strip(): leading and trailing whitespace removed.
RECURSIVE LStrip(_)
LStrip(s) ==
    IF s # <<>> /\ IsSpace(Head(s)) THEN LStrip(Tail(s)) ELSE s

RECURSIVE RStrip(_)
RStrip(s) ==
    IF s # <<>> /\ IsSpace(s[Len(s)]) THEN RStrip(SubSeq(s, 1, Len(s) - 1))
    ELSE s

Strip(s) == RStrip(LStrip(s))

\* str.replace(old, new) for one-character old.
RECURSIVE Replace(_, _, _)
Replace(s, old, new) ==
    IF s = <<>> THEN <<>>
    ELSE (IF Head(s) = old THEN new ELSE <<Head(s)>>)
         \o Replace(Tail(s), old, new)

\* re.sub(r"\s+", " ", s): each maximal run of whitespace becomes one space.
RECURSIVE SubSpaces(_)
SubSpaces(s) ==
    IF s = <<>> THEN <<>>
    ELSE IF IsSpace(Head(s))
         THEN <<" ">> \o SubSpaces(LStrip(Tail(s)))
         ELSE <<Head(s)>> \o SubSpaces(Tail(s))

\* sep.join(parts)
RECURSIVE Join(_, _)
Join(sep, parts) ==
    IF parts = <<>> THEN <<>>
    ELSE IF Len(parts) = 1 THEN parts[1]
         ELSE parts[1] \o sep \o Join(sep, Tail(parts))

SP == <<" ">>

\* The three steps in another order: strip, then replace, then collapse.
_normalise_strip_first(text) == SubSpaces(Replace(Strip(text), "~", SP))

_normalise_whitespace(text) == Strip(SubSpaces(Replace(text, "~", SP)))

\* DATE_RE.match: the pattern at the start of the text.
DateMatch(t) ==
    /\ Len(t) >= 8
    /\ \A i \in {1, 2, 4, 5, 7, 8} : IsDigit(t[i])
    /\ t[3] = "/" /\ t[6] = "/"

\* DATE_RE.fullmatch: \d{2}/\d{2}/\d{2}
DateFullMatch(t) ==
    /\ Len(t) = 8
    /\ \A i \in {1, 2, 4, 5, 7, 8} : IsDigit(t[i])
    /\ t[3] = "/" /\ t[6] = "/"

\* TIME_RE.fullmatch: \d{2}:\d{2}
TimeFullMatch(t) ==
    /\ Len(t) = 5
    /\ \A i \in {1, 2, 4, 5} : IsDigit(t[i])
    /\ t[3] = ":"

---------------------------------------------------------------------------
(* The text-function checks: _normalise_whitespace.                        *)

NormAlphabet == {"a", "b", "~", " ", "\t"}

NormInputs == SeqsUpTo(NormAlphabet, MaxStrLen)

mainIdle ==
    /\ pc = "idle" /\ args = [csv |-> "None", excel |-> "None"]
    /\ exitCode = -1 /\ files = {} /\ heap = <<>> /\ records = <<>>
    /\ current = None /\ pagesDone = 0 /\ linesDone = 0 /\ df = <<>>
    /\ hist = <<>> /\ pageLog = <<>>

InitNormalise ==
    /\ mainIdle
    /\ arg \in NormInputs
    /\ result = <<>>
    /\ fpc = "call"

\* One call of _normalise_whitespace on the argument.
Normalise ==
    /\ fpc = "call"
    /\ result' = <<_normalise_whitespace(arg)>>
    /\ fpc' = "returned"
    /\ UNCHANGED <<arg, mainVars>>

\* A second call, on the result of the first.
NormaliseAgain ==
    /\ fpc = "returned"
    /\ result' = Append(result, _normalise_whitespace(result[1]))
    /\ fpc' = "again"
    /\ UNCHANGED <<arg, mainVars>>

NextNormalise == Normalise \/ NormaliseAgain

SpecNormalise == InitNormalise /\ [][NextNormalise]_vars

---------------------------------------------------------------------------
(* Amounts.  A value of the Withdrawal/Deposit/Balance columns of the      *)
(* DataFrame, or the outcome of an expression that may raise:              *)
(*   absent  None                                                          *)
(*   float   the finite number (-1)^neg * coef * 10^exp, coef without      *)
(*           trailing zeros (the float nearest to it)                      *)
(*   inf     float infinity, nan  float NaN                                *)
(*   raise   the exception exc is raised                                   *)

Amount(kind, neg, coef, exp, exc) ==
    [kind |-> kind, neg |-> neg, coef |-> coef, exp |-> exp, exc |-> exc]

Absent == Amount("absent", FALSE, 0, 0, "")

Raise(exc) == Amount("raise", FALSE, 0, 0, exc)

RECURSIVE Pow10(_)
Pow10(n) == IF n = 0 THEN 1 ELSE 10 * Pow10(n - 1)

RECURSIVE NumDigits(_)
NumDigits(n) == IF n < 10 THEN 1 ELSE 1 + NumDigits(n \div 10)

RECURSIVE Reduce(_, _, _)
\* The same number with no trailing zero in the coefficient.
Reduce(neg, coef, exp) ==
    IF coef = 0 THEN Amount("float", neg, 0, 0, "")
    ELSE IF coef % 10 = 0 THEN Reduce(neg, coef \div 10, exp + 1)
         ELSE Amount("float", neg, coef, exp, "")

\* float(d) for a finite Decimal d: the nearest double; beyond the range of
\* a double, infinity or zero (no exception).  At adjusted exponent 308 the
\* largest double is 1.797...e308.
FloatOfFinite(neg, coef, exp) ==
    LET adj == exp + NumDigits(coef) - 1
        lead == coef \div Pow10(NumDigits(coef) - 1)
    IN  IF coef = 0 THEN Amount("float", neg, 0, 0, "")
        ELSE IF adj > 308 \/ (adj = 308 /\ lead >= 2)
             THEN Amount("inf", neg, 0, 0, "")
        ELSE IF adj < -324 THEN Amount("float", neg, 0, 0, "")
        ELSE Reduce(neg, coef, exp)

RECURSIVE NatOf(_)
\* The natural number a string of digits denotes ("" denotes 0).
NatOf(ds) ==
    IF ds = <<>> THEN 0 ELSE 10 * NatOf(SubSeq(ds, 1, Len(ds) - 1)) + DigitVal(ds[Len(ds)])

RECURSIVE DigitPrefixLen(_)
\* How many leading characters of s are digits (the greedy \d*).
DigitPrefixLen(s) ==
    IF s # <<>> /\ IsDigit(Head(s)) THEN 1 + DigitPrefixLen(Tail(s)) ELSE 0

Drop(s, n) == SubSeq(s, n + 1, Len(s))

Take(s, n) == SubSeq(s, 1, n)

LowerStr(s) == [i \in 1..Len(s) |-> Lower(s[i])]

StartsWith(s, p) == Len(s) >= Len(p) /\ Take(s, Len(p)) = p

AllDigits(s) == \A i \in 1..Len(s) : IsDigit(s[i])

\* decimal.Decimal(value) for a str: the numeric-string grammar of the
\* decimal module (case-insensitive, underscores dropped, surrounding
\* whitespace stripped):
\*    [-+]? ( digits* (. digits*)? (E [-+]? digits+)?   with a digit
\*          | Inf(inity)? | s? NaN digits* )
\* Anything else raises InvalidOperation.

\* The greedy digits*: the digits and what follows them.
ScanDigits(r) ==
    [digits |-> Take(r, DigitPrefixLen(r)), rest |-> Drop(r, DigitPrefixLen(r))]

\* (. digits*)?
ScanFraction(r) ==
    IF r # <<>> /\ Head(r) = "." THEN ScanDigits(Tail(r))
    ELSE [digits |-> <<>>, rest |-> r]

\* [-+]? digits+ to the end of the string
ScanExponentDigits(r) ==
    LET signed == r # <<>> /\ Head(r) \in {"-", "+"}
        ds == IF signed THEN Tail(r) ELSE r
        ok == ds # <<>> /\ AllDigits(ds)
    IN  [ok |-> ok,
         exp |-> IF ~ok THEN 0
                 ELSE IF Head(r) = "-" THEN 0 - NatOf(ds) ELSE NatOf(ds)]

\* (E [-+]? digits+)? and the end of the string
ScanExponent(r) ==
    IF r # <<>> /\ Head(r) = "e" THEN ScanExponentDigits(Tail(r))
    ELSE [ok |-> r = <<>>, exp |-> 0]

\* The number alternative, given its integer part, fraction and exponent.
DecimalNumber(neg, int, frac, e) ==
    IF Len(int) + Len(frac) > 0 /\ e.ok
    THEN Amount("finite", neg, NatOf(int \o frac), e.exp - Len(frac), "")
    ELSE Raise("InvalidOperation")

DecimalFraction(neg, i, f) ==
    DecimalNumber(neg, i.digits, f.digits, ScanExponent(f.rest))

DecimalInteger(neg, i) == DecimalFraction(neg, i, ScanFraction(i.rest))

\* s? NaN digits*
DecimalNaN(neg, r) ==
    IF StartsWith(r, <<"n", "a", "n">>) /\ AllDigits(Drop(r, 3))
    THEN Amount("nan", neg, 0, 0, "")
    ELSE IF StartsWith(r, <<"s", "n", "a", "n">>) /\ AllDigits(Drop(r, 4))
    THEN Amount("snan", neg, 0, 0, "")
    ELSE Raise("InvalidOperation")

\* What follows the sign.
DecimalUnsigned(neg, r) ==
    IF r # <<>> /\ (IsDigit(Head(r)) \/ Head(r) = ".")
    THEN DecimalInteger(neg, ScanDigits(r))
    ELSE IF r \in {<<"i", "n", "f">>, <<"i", "n", "f", "i", "n", "i", "t", "y">>}
    THEN Amount("inf", neg, 0, 0, "")
    ELSE DecimalNaN(neg, r)

DecimalSigned(s) ==
    IF s # <<>> /\ Head(s) \in {"-", "+"}
    THEN DecimalUnsigned(Head(s) = "-", Tail(s))
    ELSE DecimalUnsigned(FALSE, s)

Decimal(value) == DecimalSigned(LowerStr(Replace(Strip(value), "_", <<>>)))

\* float(Decimal(value)): a signaling NaN cannot be converted (ValueError).
FloatOfDecimal(value) ==
    LET d == Decimal(value)
    IN  CASE d.kind = "finite" -> FloatOfFinite(d.neg, d.coef, d.exp)
          [] d.kind = "snan"   -> Raise("ValueError")
          [] OTHER             -> d

\* try: return <amount>  except <caught>: return None
TryExcept(amount, caught) ==
    IF amount.kind = "raise" /\ amount.exc \in caught THEN Absent ELSE amount

\* _parse_amount with an except clause that names ValueError alone.
_parse_amount_value_error_only(value) ==
    LET v == Strip(value)
    IN  IF v = <<>> THEN Absent
        ELSE TryExcept(FloatOfDecimal(Replace(v, ",", <<>>)), {"ValueError"})

_parse_amount(value) ==
    LET v == Strip(value)
    IN  IF v = <<>> THEN Absent
        ELSE TryExcept(FloatOfDecimal(Replace(v, ",", <<>>)),
                       {"InvalidOperation", "ValueError"})

---------------------------------------------------------------------------
(* The text-function checks: _parse_amount.                                *)

AmountAlphabet == {"0", "5", ",", ".", "-", " ", "e", "a"}

S_1_234_56 == <<"1", ",", "2", "3", "4", ".", "5", "6">>
S_m50_00   == <<"-", "5", "0", ".", "0", "0">>
S_abc      == <<"a", "b", "c">>
S_150_00   == <<"1", "5", "0", ".", "0", "0">>
S_20_00    == <<"2", "0", ".", "0", "0">>
S_4500_00  == <<"4", "5", "0", "0", ".", "0", "0">>
S_12       == <<"1", "2">>

AmountSamples ==
    { S_1_234_56, S_m50_00, S_abc, S_150_00, S_4500_00,
      <<"s", "N", "a", "N">>, <<"N", "a", "N">>, <<"I", "n", "f">>,
      <<"1", "_", "0">>, <<"+", "5">>, <<"5", "e", "3", "0", "8">>,
      <<"5", "E", "-", "3", "2", "5">>, <<" ", "5", " ", "0">>,
      <<"\t", "5", "\n">> }

AmountInputs == SeqsUpTo(AmountAlphabet, MaxAmountLen) \cup AmountSamples

InitAmount ==
    /\ mainIdle
    /\ arg \in AmountInputs
    /\ result = Absent
    /\ fpc = "call"

\* One call of _parse_amount on the argument.
ParseAmount ==
    /\ fpc = "call"
    /\ result' = _parse_amount(arg)
    /\ fpc' = "returned"
    /\ UNCHANGED <<arg, mainVars>>

NextAmount == ParseAmount

SpecAmount == InitAmount /\ [][NextAmount]_vars

---------------------------------------------------------------------------
(* Words, Lines and record dicts.                                          *)

\* Column boundaries (x0 positions).
WITHDRAWAL_RANGE == <<340, 420>>
DEPOSIT_RANGE == <<420, 470>>
BALANCE_RANGE == <<470, 540>>
BRANCH_MIN_X == 530

\* A word of pdfplumber's extract_words, as far as the scan reads it.
W(text, x0) == [text |-> text, x0 |-> x0]

RECURSIVE InsertByX0(_, _)
\* w inserted into the sorted sequence ws, after the words that are not
\* to its right (a stable sort).
InsertByX0(ws, w) ==
    IF ws = <<>> THEN <<w>>
    ELSE IF Head(ws).x0 <= w.x0 THEN <<Head(ws)>> \o InsertByX0(Tail(ws), w)
         ELSE <<w>> \o ws

RECURSIVE SortedByX0(_)
\* sorted(words, key=lambda w: w["x0"])
SortedByX0(ws) ==
    IF ws = <<>> THEN <<>>
    ELSE InsertByX0(SortedByX0(SubSeq(ws, 1, Len(ws) - 1)), ws[Len(ws)])

\* line_words left as the grouping pass gave them.
LineWordsUnsorted(line) == line

LineWords(line) == SortedByX0(line)

Texts(ws) == [i \in 1..Len(ws) |-> ws[i].text]

S_Total == <<"T", "o", "t", "a", "l">>
S_Withdrawal == <<"W", "i", "t", "h", "d", "r", "a", "w", "a", "l">>
S_Deposit == <<"D", "e", "p", "o", "s", "i", "t">>

IsTotal(t) == t = S_Total

\* The dict literal of lines 65-74 and 94-103.
NewRecord(date, page) ==
    [Date |-> date, Time |-> <<>>, Description |-> <<>>, Withdrawal |-> <<>>,
     Deposit |-> <<>>, Balance |-> <<>>, Branch |-> <<>>, Page |-> page]

\* The Withdrawal test with its upper end point left out.
InWithdrawalOpen(x0) == WITHDRAWAL_RANGE[1] <= x0 /\ x0 < WITHDRAWAL_RANGE[2]

InWithdrawal(x0) == WITHDRAWAL_RANGE[1] <= x0 /\ x0 <= WITHDRAWAL_RANGE[2]
InDeposit(x0) == DEPOSIT_RANGE[1] < x0 /\ x0 <= DEPOSIT_RANGE[2]
InBalance(x0) == BALANCE_RANGE[1] < x0 /\ x0 <= BALANCE_RANGE[2]

\* current["Branch"] = text: the Branch overwritten, not accumulated.
AddBranchOverwrite(branch, text) == Strip(text)

\* (current["Branch"] + " " + text).strip()
AddBranch(branch, text) == Strip(branch \o SP \o text)

RECURSIVE ClassifyOpeningFirstWins(_, _, _)
\* The opening loop with the `and not current[...]` tests of the
\* continuation loop: the first word of a band sets the field.
ClassifyOpeningFirstWins(rec, parts, ws) ==
    IF ws = <<>> THEN [rec |-> rec, parts |-> parts]
    ELSE LET x0 == Head(ws).x0
             text == Head(ws).text
         IN  IF InWithdrawal(x0) /\ rec.Withdrawal = <<>>
             THEN ClassifyOpeningFirstWins([rec EXCEPT !.Withdrawal = text],
                                           parts, Tail(ws))
             ELSE IF InDeposit(x0) /\ rec.Deposit = <<>>
             THEN ClassifyOpeningFirstWins([rec EXCEPT !.Deposit = text],
                                           parts, Tail(ws))
             ELSE IF InBalance(x0) /\ rec.Balance = <<>>
             THEN ClassifyOpeningFirstWins([rec EXCEPT !.Balance = text],
                                           parts, Tail(ws))
             ELSE IF x0 > BRANCH_MIN_X
             THEN ClassifyOpeningFirstWins([rec EXCEPT !.Branch = AddBranch(@, text)],
                                           parts, Tail(ws))
             ELSE ClassifyOpeningFirstWins(rec, Append(parts, text), Tail(ws))

RECURSIVE ClassifyOpening(_, _, _)
\* The loop of lines 76-88 over the words after the date: the record and
\* description_parts after it.
ClassifyOpening(rec, parts, ws) ==
    IF ws = <<>> THEN [rec |-> rec, parts |-> parts]
    ELSE LET x0 == Head(ws).x0
             text == Head(ws).text
         IN  IF InWithdrawal(x0)
             THEN ClassifyOpening([rec EXCEPT !.Withdrawal = text], parts, Tail(ws))
             ELSE IF InDeposit(x0)
             THEN ClassifyOpening([rec EXCEPT !.Deposit = text], parts, Tail(ws))
             ELSE IF InBalance(x0)
             THEN ClassifyOpening([rec EXCEPT !.Balance = text], parts, Tail(ws))
             ELSE IF x0 > BRANCH_MIN_X
             THEN ClassifyOpening([rec EXCEPT !.Branch = AddBranch(@, text)],
                                  parts, Tail(ws))
             ELSE ClassifyOpening(rec, Append(parts, text), Tail(ws))

\* Lines 65-89: the Transaction a Date line opens.
OpenTransaction(line_words, page) ==
    LET c == ClassifyOpening(NewRecord(line_words[1].text, page), <<>>,
                             Tail(line_words))
    IN  [c.rec EXCEPT !.Description = _normalise_whitespace(Join(SP, c.parts))]

\* The continuation loop without the `and not current[...]` tests.
ClassifyContinuationOverwrite(rec, parts, ws) == ClassifyOpening(rec, parts, ws)

RECURSIVE ClassifyContinuationDiscard(_, _, _)
\* The continuation loop with the `not current[...]` tests nested inside
\* the band tests: a word in a populated amount band is discarded.
ClassifyContinuationDiscard(rec, parts, ws) ==
    IF ws = <<>> THEN [rec |-> rec, parts |-> parts]
    ELSE LET x0 == Head(ws).x0
             text == Head(ws).text
         IN  IF InWithdrawal(x0)
             THEN ClassifyContinuationDiscard(
                      IF rec.Withdrawal = <<>> THEN [rec EXCEPT !.Withdrawal = text]
                      ELSE rec, parts, Tail(ws))
             ELSE IF InDeposit(x0)
             THEN ClassifyContinuationDiscard(
                      IF rec.Deposit = <<>> THEN [rec EXCEPT !.Deposit = text]
                      ELSE rec, parts, Tail(ws))
             ELSE IF InBalance(x0)
             THEN ClassifyContinuationDiscard(
                      IF rec.Balance = <<>> THEN [rec EXCEPT !.Balance = text]
                      ELSE rec, parts, Tail(ws))
             ELSE IF x0 > BRANCH_MIN_X
             THEN ClassifyContinuationDiscard(
                      [rec EXCEPT !.Branch = AddBranch(@, text)], parts, Tail(ws))
             ELSE ClassifyContinuationDiscard(rec, Append(parts, text), Tail(ws))

RECURSIVE ClassifyContinuation(_, _, _)
\* The loop of lines 121-133: the record and extra_desc after it.
ClassifyContinuation(rec, parts, ws) ==
    IF ws = <<>> THEN [rec |-> rec, parts |-> parts]
    ELSE LET x0 == Head(ws).x0
             text == Head(ws).text
         IN  IF InWithdrawal(x0) /\ rec.Withdrawal = <<>>
             THEN ClassifyContinuation([rec EXCEPT !.Withdrawal = text], parts, Tail(ws))
             ELSE IF InDeposit(x0) /\ rec.Deposit = <<>>
             THEN ClassifyContinuation([rec EXCEPT !.Deposit = text], parts, Tail(ws))
             ELSE IF InBalance(x0) /\ rec.Balance = <<>>
             THEN ClassifyContinuation([rec EXCEPT !.Balance = text], parts, Tail(ws))
             ELSE IF x0 > BRANCH_MIN_X
             THEN ClassifyContinuation([rec EXCEPT !.Branch = AddBranch(@, text)],
                                       parts, Tail(ws))
             ELSE ClassifyContinuation(rec, Append(parts, text), Tail(ws))

\* Lines 135-139 with the new text replacing the description.
ReplaceDescription(description, extra_desc) ==
    _normalise_whitespace(Join(SP, extra_desc))

\* Lines 135-139: the description with extra_desc appended.
AppendDescription(description, extra_desc) ==
    _normalise_whitespace(
        (IF description # <<>> THEN description \o SP ELSE description)
        \o Join(SP, extra_desc))

\* Lines 116-139 without the slice of line 119: the time word is classified
\* with the others.
ContinueKeepTimeWord(rec, line_words) ==
    LET first_text == line_words[1].text
        timed == TimeFullMatch(first_text)
        rec1 == IF timed THEN [rec EXCEPT !.Time = first_text] ELSE rec
        c == ClassifyContinuation(rec1, <<>>, line_words)
    IN  IF c.parts # <<>>
        THEN [c.rec EXCEPT !.Description = AppendDescription(@, c.parts)]
        ELSE c.rec

\* Lines 116-139: the open record after a continuation Line.
Continue(rec, line_words) ==
    LET first_text == line_words[1].text
        timed == TimeFullMatch(first_text)
        rec1 == IF timed THEN [rec EXCEPT !.Time = first_text] ELSE rec
        extra_words == IF timed THEN Tail(line_words) ELSE line_words
        c == ClassifyContinuation(rec1, <<>>, extra_words)
    IN  IF c.parts # <<>>
        THEN [c.rec EXCEPT !.Description = AppendDescription(@, c.parts)]
        ELSE c.rec

\* The Summary with the amount always in the Withdrawal column.
SummaryWithdrawalOnly(texts, page) ==
    LET summary == NewRecord(<<>>, page)
    IN  IF Len(texts) >= 4 /\ texts[2] \in {S_Withdrawal, S_Deposit}
        THEN [summary EXCEPT
                !.Description = S_Total \o SP \o texts[2]
                    \o <<" ", "(", "c", "o", "u", "n", "t", ":", " ">>
                    \o texts[3] \o <<")">>,
                !.Withdrawal = texts[4]]
        ELSE [summary EXCEPT
                !.Description = _normalise_whitespace(Join(SP, texts))]

\* The Summary whose plain description joins texts[1:], without "Total".
SummaryRestOnly(texts, page) ==
    LET summary == NewRecord(<<>>, page)
    IN  IF Len(texts) >= 4 /\ texts[2] \in {S_Withdrawal, S_Deposit}
        THEN [summary EXCEPT
                !.Description = S_Total \o SP \o texts[2]
                    \o <<" ", "(", "c", "o", "u", "n", "t", ":", " ">>
                    \o texts[3] \o <<")">>,
                !.Withdrawal = IF texts[2] = S_Withdrawal THEN texts[4] ELSE @,
                !.Deposit = IF texts[2] = S_Withdrawal THEN @ ELSE texts[4]]
        ELSE [summary EXCEPT
                !.Description = _normalise_whitespace(Join(SP, Tail(texts)))]

\* Lines 94-113: the Summary a Total line makes.
Summary(texts, page) ==
    LET summary == NewRecord(<<>>, page)
    IN  IF Len(texts) >= 4 /\ texts[2] \in {S_Withdrawal, S_Deposit}
        THEN [summary EXCEPT
                !.Description = S_Total \o SP \o texts[2]
                    \o <<" ", "(", "c", "o", "u", "n", "t", ":", " ">>
                    \o texts[3] \o <<")">>,
                !.Withdrawal = IF texts[2] = S_Withdrawal THEN texts[4] ELSE @,
                !.Deposit = IF texts[2] = S_Withdrawal THEN @ ELSE texts[4]]
        ELSE [summary EXCEPT
                !.Description = _normalise_whitespace(Join(SP, texts))]

\* if current: records.append(current)
AppendOpen(recs, cur) == IF cur # None THEN Append(recs, cur) ELSE recs

\* Line 93 left out: current keeps its reference after a Total line.
KeepCurrent(cur) == cur

\* Line 93 as current = summary: the Summary made next (the record that
\* follows the last of the heap) becomes the open record.
CurrentIsSummary(cur) == Len(heap) + 1

\* Line 93: current = None (when a record was open; it is None otherwise).
ResetCurrent(cur) == None

\* enumerate(pdf.pages) without start=1.
page_idx_from_zero == pagesDone - 1

\* page_idx of enumerate(pdf.pages, start=1), on the page being scanned.
page_idx == 1 + pagesDone - 1

---------------------------------------------------------------------------
(* Lines 44-52: the words of a page sorted and grouped into lines.  A top  *)
(* is a float; it is modelled in half points (top 3 is 1.5), values that   *)
(* floats hold exactly, so that the subtraction of line 49 is exact.       *)

\* The 1.5 of line 49, in half points.
TOP_TOLERANCE == 3

WT(x0, top) == [x0 |-> x0, top |-> top]

Abs(n) == IF n < 0 THEN -n ELSE n

\* (a["top"], a["x0"]) <= (b["top"], b["x0"])
KeyLE(a, b) == a.top < b.top \/ (a.top = b.top /\ a.x0 <= b.x0)

RECURSIVE InsertByTopX0(_, _)
\* w inserted into the sorted sequence ws, after the words whose key is not
\* greater (a stable sort).
InsertByTopX0(ws, w) ==
    IF ws = <<>> THEN <<w>>
    ELSE IF KeyLE(Head(ws), w) THEN <<Head(ws)>> \o InsertByTopX0(Tail(ws), w)
         ELSE <<w>> \o ws

RECURSIVE SortedByTopX0(_)
\* words.sort(key=lambda w: (w["top"], w["x0"]))
SortedByTopX0(ws) ==
    IF ws = <<>> THEN <<>>
    ELSE InsertByTopX0(SortedByTopX0(SubSeq(ws, 1, Len(ws) - 1)), ws[Len(ws)])

\* The test of line 49 against the top of the line's last word.
StartsLineChained(lines, word) ==
    \/ lines = <<>>
    \/ LET ws == lines[Len(lines)].words
       IN  Abs(word.top - ws[Len(ws)].top) > TOP_TOLERANCE

\* Line 49: not lines or abs(word["top"] - lines[-1]["top"]) > 1.5
StartsLine(lines, word) ==
    \/ lines = <<>>
    \/ Abs(word.top - lines[Len(lines)].top) > TOP_TOLERANCE

\* Lines 49-52: one word of the loop.
GroupWord(lines, word) ==
    IF StartsLine(lines, word)
    THEN Append(lines, [top |-> word.top, words |-> <<word>>])
    ELSE [lines EXCEPT ![Len(lines)].words = Append(@, word)]

RECURSIVE GroupLines(_, _)
\* Lines 47-52: the loop over the sorted words.
GroupLines(lines, words) ==
    IF words = <<>> THEN lines
    ELSE GroupLines(GroupWord(lines, Head(words)), Tail(words))

TopValues == 0..MaxTop

WordInputs == SeqsUpTo({WT(x0, top) : x0 \in {40, 100}, top \in TopValues}, MaxWords)

InitGroup ==
    /\ mainIdle
    /\ arg \in WordInputs
    /\ result = <<>>
    /\ fpc = "call"

\* Line 44: the words of the page are sorted.
SortWords ==
    /\ fpc = "call"
    /\ result' = <<SortedByTopX0(arg)>>
    /\ fpc' = "sorted"
    /\ UNCHANGED <<arg, mainVars>>

\* Lines 47-52: the sorted words are grouped into lines.
GroupWords ==
    /\ fpc = "sorted"
    /\ result' = Append(result, GroupLines(<<>>, result[1]))
    /\ fpc' = "grouped"
    /\ UNCHANGED <<arg, mainVars>>

NextGroup == SortWords \/ GroupWords

\* The sort and the grouping pass on the words of one page.
SpecGroup == InitGroup /\ [][NextGroup]_vars

---------------------------------------------------------------------------
(* The Lines the scan is given.                                            *)

S_D1 == <<"0", "1", "/", "0", "2", "/", "2", "3">>
S_D2 == <<"1", "5", "/", "0", "3", "/", "2", "3">>
S_LongDate == <<"0", "1", "/", "0", "2", "/", "2", "0", "2", "3">>
S_Time == <<"0", "9", ":", "1", "5">>
S_Grocery == <<"G", "r", "o", "c", "e", "r", "y", " ", "S", "t", "o", "r", "e">>
S_Ref == <<"R", "e", "f", ":", " ", "9", "9", "9">>
S_Tilde == <<"a", "~", "~", "b">>
S_HQ == <<"H", "Q">>

Lines ==
    { <<W(S_D1, 40), W(S_Grocery, 100), W(S_150_00, 380)>>,
      <<W(S_Ref, 100)>>,
      <<W(S_Tilde, 100), W(S_20_00, 450), W(S_HQ, 545), W(S_D2, 40)>>,
      <<W(S_Time, 40), W(S_Tilde, 100), W(S_D1, 200), W(S_20_00, 380),
        W(S_abc, 500)>>,
      <<W(S_Total, 40), W(S_Withdrawal, 100), W(S_12, 300), W(S_4500_00, 380)>>,
      <<W(S_Total, 40), W(S_Deposit, 100), W(S_12, 300), W(S_20_00, 450),
        W(S_HQ, 545)>>,
      <<W(S_Total, 40), W(S_Deposit, 100), W(S_12, 300)>>,
      <<W(S_Total, 40), W(S_abc, 100), W(S_12, 300), W(S_4500_00, 380)>>,
      <<W(S_LongDate, 40), W(S_12, 380)>> }

\* The Lines given to the scan when the whole of main() is run.
MainLines ==
    { <<W(S_D1, 40), W(S_Grocery, 100), W(S_150_00, 380)>>,
      <<W(S_Ref, 100)>>,
      <<W(S_Total, 40), W(S_Withdrawal, 100), W(S_12, 300), W(S_4500_00, 380)>> }

---------------------------------------------------------------------------
(* main() and extract_statement_records.                                   *)

ArgValues == {"None", "out"}

\* bool(x) of an argparse value: None and "" are false.
Truthy(x) == x \notin {"None", ""}

\* The test of line 173 left out: no run is a usage error.
NeverUsageError(a) == FALSE

\* Line 173: not args.csv and not args.excel
NoOutputGiven(a) == ~Truthy(a.csv) /\ ~Truthy(a.excel)

Init ==
    /\ pc = "start"
    /\ args = [csv |-> "None", excel |-> "None"]
    /\ exitCode = -1
    /\ files = {}
    /\ heap = <<>>
    /\ records = <<>>
    /\ current = None
    /\ pagesDone = 0
    /\ linesDone = 0
    /\ df = <<>>
    /\ hist = <<>>
    /\ pageLog = <<>>
    /\ arg = <<>>
    /\ result = <<>>
    /\ fpc = "none"

\* Lines 165-174: the command line is parsed; with no output path the run
\* ends in parser.error (exit status 2).
ParseArgs ==
    /\ pc = "start"
    /\ \E csv \in ArgValues, excel \in ArgValues :
         LET a == [csv |-> csv, excel |-> excel]
         IN  /\ args' = a
             /\ IF NoOutputGiven(a)
                THEN pc' = "usage_error" /\ exitCode' = 2
                ELSE pc' = "open" /\ exitCode' = exitCode
    /\ UNCHANGED <<files, heap, records, current, pagesDone, linesDone, df,
                   hist, pageLog, fnVars>>

\* Line 40: pdfplumber.open succeeds, or raises (unreadable file, wrong
\* password, corrupt document) and the exception ends the run.
OpenPdf ==
    /\ pc = "open"
    /\ \E ok \in BOOLEAN :
         IF ok THEN pc' = "pages" /\ exitCode' = exitCode
         ELSE pc' = "open_failed" /\ exitCode' = 1
    /\ UNCHANGED <<args, files, heap, records, current, pagesDone, linesDone,
                   df, hist, pageLog, fnVars>>

\* Lines 41-53 without line 54: current keeps the record of the page before.
BeginPageKeepCurrent ==
    /\ pc = "pages"
    /\ pagesDone < MaxPages
    /\ pagesDone' = pagesDone + 1
    /\ current' = current
    /\ pageLog' = Append(pageLog, <<>>)
    /\ pc' = "scan"
    /\ UNCHANGED <<args, exitCode, files, heap, records, linesDone, df, hist,
                   fnVars>>

\* Lines 41-54: the next page is cropped, its words extracted and grouped;
\* current = None.
BeginPage ==
    /\ pc = "pages"
    /\ pagesDone < MaxPages
    /\ pagesDone' = pagesDone + 1
    /\ current' = None
    /\ pageLog' = Append(pageLog, <<>>)
    /\ pc' = "scan"
    /\ UNCHANGED <<args, exitCode, files, heap, records, linesDone, df, hist,
                   fnVars>>

\* Lines 42-43: reading a page raises, and the exception ends the run.
PageFails ==
    /\ pc = "pages"
    /\ pagesDone < MaxPages
    /\ pc' = "page_failed"
    /\ exitCode' = 1
    /\ UNCHANGED <<args, files, heap, records, current, pagesDone, linesDone,
                   df, hist, pageLog, fnVars>>

Log(line) == [pageLog EXCEPT ![Len(pageLog)] = Append(@, line)]

\* Lines 62-89: a Line whose first text is a date.
DateLine(line) ==
    LET line_words == LineWords(line)
        first_text == line_words[1].text
    IN  /\ pc = "scan"
        /\ linesDone < MaxLines
        /\ DateFullMatch(first_text)
        /\ records' = AppendOpen(records, current)
        /\ heap' = Append(heap, OpenTransaction(line_words, page_idx))
        /\ current' = Len(heap) + 1
        /\ hist' = Append(hist, [page |-> Len(pageLog),
                                 line |-> Len(pageLog[Len(pageLog)]) + 1])
        /\ pageLog' = Log(line)
        /\ linesDone' = linesDone + 1
        /\ UNCHANGED <<pc, args, exitCode, files, pagesDone, df, fnVars>>

\* Lines 90-114: a Line whose first text is "Total".
TotalLine(line) ==
    LET line_words == LineWords(line)
        texts == Texts(line_words)
        first_text == texts[1]
    IN  /\ pc = "scan"
        /\ linesDone < MaxLines
        /\ ~DateFullMatch(first_text)
        /\ IsTotal(first_text)
        /\ heap' = Append(heap, Summary(texts, page_idx))
        /\ records' = Append(AppendOpen(records, current), Len(heap) + 1)
        /\ current' = IF current # None THEN ResetCurrent(current) ELSE current
        /\ hist' = Append(hist, [page |-> Len(pageLog),
                                 line |-> Len(pageLog[Len(pageLog)]) + 1])
        /\ pageLog' = Log(line)
        /\ linesDone' = linesDone + 1
        /\ UNCHANGED <<pc, args, exitCode, files, pagesDone, df, fnVars>>

\* Lines 115-139: any other Line while a record is open.
ContinuationLine(line) ==
    LET line_words == LineWords(line)
        first_text == line_words[1].text
    IN  /\ pc = "scan"
        /\ linesDone < MaxLines
        /\ ~DateFullMatch(first_text)
        /\ ~IsTotal(first_text)
        /\ current # None
        /\ heap' = [heap EXCEPT ![current] = Continue(@, line_words)]
        /\ pageLog' = Log(line)
        /\ linesDone' = linesDone + 1
        /\ UNCHANGED <<pc, args, exitCode, files, records, current, pagesDone,
                       df, hist, fnVars>>

\* No branch of lines 62-115 applies: the Line is skipped.
DroppedLine(line) ==
    LET line_words == LineWords(line)
        first_text == line_words[1].text
    IN  /\ pc = "scan"
        /\ linesDone < MaxLines
        /\ ~DateFullMatch(first_text)
        /\ ~IsTotal(first_text)
        /\ current = None
        /\ pageLog' = Log(line)
        /\ linesDone' = linesDone + 1
        /\ UNCHANGED <<pc, args, exitCode, files, heap, records, current,
                       pagesDone, df, hist, fnVars>>

\* Lines 140-141: the page's Lines are exhausted.
EndPage ==
    /\ pc = "scan"
    /\ records' = AppendOpen(records, current)
    /\ pc' = "pages"
    /\ UNCHANGED <<args, exitCode, files, heap, current, pagesDone, linesDone,
                   df, hist, pageLog, fnVars>>

\* Lines 154-159 on one row.
ParseRow(rec) ==
    [rec EXCEPT !.Withdrawal = _parse_amount(@),
                !.Deposit = _parse_amount(@),
                !.Balance = _parse_amount(@)]

RowRaises(row) ==
    \E col \in {"Withdrawal", "Deposit", "Balance"} : row[col].kind = "raise"

\* Lines 143-161: pdf.pages is exhausted; the DataFrame is built and its
\* amount columns parsed.  An exception of _parse_amount ends the run.
BuildFrame ==
    /\ pc = "pages"
    /\ LET frame == [i \in 1..Len(records) |-> ParseRow(heap[records[i]])]
       IN  IF \E i \in 1..Len(frame) : RowRaises(frame[i])
           THEN pc' = "parse_failed" /\ exitCode' = 1 /\ df' = df
           ELSE pc' = "write_csv" /\ exitCode' = exitCode /\ df' = frame
    /\ UNCHANGED <<args, files, heap, records, current, pagesDone, linesDone,
                   hist, pageLog, fnVars>>

\* Lines 178-179.
WriteCsv ==
    /\ pc = "write_csv"
    /\ files' = IF Truthy(args.csv) THEN files \cup {"csv"} ELSE files
    /\ pc' = "write_excel"
    /\ UNCHANGED <<args, exitCode, heap, records, current, pagesDone,
                   linesDone, df, hist, pageLog, fnVars>>

\* Lines 180-181, and the normal end of the run.
WriteExcel ==
    /\ pc = "write_excel"
    /\ files' = IF Truthy(args.excel) THEN files \cup {"excel"} ELSE files
    /\ pc' = "done"
    /\ exitCode' = 0
    /\ UNCHANGED <<args, heap, records, current, pagesDone, linesDone, df,
                   hist, pageLog, fnVars>>

Next ==
    \/ ParseArgs
    \/ OpenPdf
    \/ BeginPage
    \/ PageFails
    \/ \E line \in MainLines : DateLine(line)
    \/ \E line \in MainLines : TotalLine(line)
    \/ \E line \in MainLines : ContinuationLine(line)
    \/ \E line \in MainLines : DroppedLine(line)
    \/ EndPage
    \/ BuildFrame
    \/ WriteCsv
    \/ WriteExcel

\* main(): the command line, the extraction, the output files.
Spec == Init /\ [][Next]_vars

\* extract_statement_records is entered with the document open (line 40
\* has succeeded; the caller was given --csv).
InitScan ==
    /\ pc = "pages"
    /\ args = [csv |-> "out", excel |-> "None"]
    /\ exitCode = -1
    /\ files = {}
    /\ heap = <<>>
    /\ records = <<>>
    /\ current = None
    /\ pagesDone = 0
    /\ linesDone = 0
    /\ df = <<>>
    /\ hist = <<>>
    /\ pageLog = <<>>
    /\ arg = <<>>
    /\ result = <<>>
    /\ fpc = "none"

NextScan ==
    \/ BeginPage
    \/ PageFails
    \/ \E line \in Lines : DateLine(line)
    \/ \E line \in Lines : TotalLine(line)
    \/ \E line \in Lines : ContinuationLine(line)
    \/ \E line \in Lines : DroppedLine(line)
    \/ EndPage
    \/ BuildFrame

\* extract_statement_records, from the open document to the DataFrame.
SpecScan == InitScan /\ [][NextScan]_vars

---------------------------------------------------------------------------
(* The scan of one page whose fragments lie at the end points of the bands. *)

S_Time2 == <<"1", "0", ":", "3", "0">>
S_p == <<"p">>
S_q == <<"q">>
S_r == <<"r">>
S_s == <<"s">>

BandLines ==
    { <<W(S_D1, 40), W(S_p, 339), W(S_q, 340), W(S_r, 420)>>,
      <<W(S_D1, 40), W(S_p, 421), W(S_q, 470), W(S_r, 471)>>,
      <<W(S_D2, 40), W(S_p, 530), W(S_q, 531), W(S_r, 540), W(S_s, 541)>>,
      <<W(S_D2, 40), W(S_Time, 100), W(S_HQ, 545)>>,
      <<W(S_D1, 40)>>,
      <<W(S_Time, 40), W(S_p, 340), W(S_q, 420)>>,
      <<W(S_Time2, 40), W(S_q, 531), W(S_r, 540), W(S_s, 541)>>,
      <<W(S_p, 100), W(S_Time, 200), W(S_q, 471), W(S_r, 530)>>,
      <<W(S_p, 421), W(S_q, 470), W(S_r, 339)>>,
      <<W(S_Time, 40)>>,
      <<W(S_Total, 40), W(S_Deposit, 100), W(S_12, 300), W(S_20_00, 450)>> }

\* The scan of the first page has begun (lines 41-54 have run once).
InitBands ==
    /\ pc = "scan"
    /\ args = [csv |-> "out", excel |-> "None"]
    /\ exitCode = -1
    /\ files = {}
    /\ heap = <<>>
    /\ records = <<>>
    /\ current = None
    /\ pagesDone = 1
    /\ linesDone = 0
    /\ df = <<>>
    /\ hist = <<>>
    /\ pageLog = << <<>> >>
    /\ arg = <<>>
    /\ result = <<>>
    /\ fpc = "none"

\* A document of one page: after the page, pdf.pages is exhausted.
NextBands ==
    \/ \E line \in BandLines : DateLine(line)
    \/ \E line \in BandLines : TotalLine(line)
    \/ \E line \in BandLines : ContinuationLine(line)
    \/ \E line \in BandLines : DroppedLine(line)
    \/ EndPage
    \/ BuildFrame

\* The line loop of lines 55-141 on one page, then the DataFrame.
SpecBands == InitBands /\ [][NextBands]_vars

---------------------------------------------------------------------------
(* The scan of one page of Total Lines among Transactions.                 *)

TotalLines ==
    { <<W(S_Tilde, 100), W(S_20_00, 450), W(S_HQ, 545), W(S_D2, 40)>>,
      <<W(S_Ref, 100)>>,
      <<W(S_Total, 40), W(S_Withdrawal, 100), W(S_12, 300), W(S_4500_00, 380)>>,
      <<W(S_Total, 40), W(S_Deposit, 100), W(S_12, 300), W(S_20_00, 450),
        W(S_HQ, 545)>>,
      <<W(S_Total, 40), W(S_Deposit, 100), W(S_12, 300)>>,
      <<W(S_Total, 40), W(S_abc, 100), W(S_12, 300), W(S_4500_00, 380)>>,
      <<W(S_Total, 40)>> }

NextTotals ==
    \/ \E line \in TotalLines : DateLine(line)
    \/ \E line \in TotalLines : TotalLine(line)
    \/ \E line \in TotalLines : ContinuationLine(line)
    \/ \E line \in TotalLines : DroppedLine(line)
    \/ EndPage
    \/ BuildFrame

\* The line loop of lines 55-141 on one page, then the DataFrame.
SpecTotals == InitBands /\ [][NextTotals]_vars

---------------------------------------------------------------------------
(* Properties.  Their vocabulary is defined here on its own, from the      *)
(* statement of each property, not from the operators above.               *)

Range(f) == {f[i] : i \in DOMAIN f}

IsBlank(c) == c = " " \/ c = "\t" \/ c = "\n"

IsSeparator(c) == IsBlank(c) \/ c = "~"

RECURSIVE WordsOf(_, _, _)
\* The maximal runs of non-separator characters of s, in order (acc: the
\* words found, cur: the run being read).
WordsOf(s, acc, cur) ==
    IF s = <<>> THEN (IF cur = <<>> THEN acc ELSE Append(acc, cur))
    ELSE IF IsSeparator(Head(s))
         THEN WordsOf(Tail(s), IF cur = <<>> THEN acc ELSE Append(acc, cur), <<>>)
         ELSE WordsOf(Tail(s), acc, Append(cur, Head(s)))

RECURSIVE SpaceJoined(_)
SpaceJoined(ws) ==
    IF ws = <<>> THEN <<>>
    ELSE IF Len(ws) = 1 THEN ws[1]
         ELSE ws[1] \o <<" ">> \o SpaceJoined(Tail(ws))

\* A text in normal form: its words, one space between neighbours.
Normalised(s) == SpaceJoined(WordsOf(s, <<>>, <<>>))

\* C7: _normalise_whitespace is idempotent, normalise(normalise(s)) =
\* normalise(s); its result holds no tilde, no two consecutive whitespace
\* characters and no leading or trailing whitespace: it is the words of the
\* text (the runs between tildes and whitespace) with one space between them.
C7_NormaliseIdempotent ==
    /\ fpc \in {"returned", "again"} =>
         LET r == result[1]
         IN  /\ \A i \in 1..Len(r) : r[i] # "~"
             /\ \A i \in 1..(Len(r) - 1) : ~(IsBlank(r[i]) /\ IsBlank(r[i + 1]))
             /\ r # <<>> => ~IsBlank(r[1]) /\ ~IsBlank(r[Len(r)])
             /\ r = Normalised(arg)
    /\ fpc = "again" => result[2] = result[1]

\* A text with a leading tilde and an inner run of tilde and tab has been
\* normalised twice.
C7_Witness ==
    /\ fpc = "again"
    /\ arg = <<"~", "a", "~", "\t", "b">> \/ arg = <<"~", "a", "\t", "b">>
    /\ result[2] = <<"a", " ", "b">>

RECURSIVE WithoutChar(_, _)
WithoutChar(s, c) ==
    IF s = <<>> THEN <<>>
    ELSE IF Head(s) = c THEN WithoutChar(Tail(s), c)
         ELSE <<Head(s)>> \o WithoutChar(Tail(s), c)

RECURSIVE Trimmed(_)
\* s without its leading and trailing whitespace.
Trimmed(s) ==
    IF s = <<>> THEN s
    ELSE IF IsBlank(s[1]) THEN Trimmed(Tail(s))
    ELSE IF IsBlank(s[Len(s)]) THEN Trimmed(SubSeq(s, 1, Len(s) - 1))
    ELSE s

IsDigitChar(c) == c \in {"0", "1", "2", "3", "4", "5", "6", "7", "8", "9"}

Unsigned(s) == IF s # <<>> /\ s[1] \in {"+", "-"} THEN Tail(s) ELSE s

\* A plain decimal numeral: an optional sign, then digits with at most one
\* decimal point among them, and at least one digit.
IsPlainNumeral(s) ==
    LET u == Unsigned(s)
    IN  /\ \E i \in 1..Len(u) : IsDigitChar(u[i])
        /\ \A i \in 1..Len(u) : IsDigitChar(u[i]) \/ u[i] = "."
        /\ Cardinality({i \in 1..Len(u) : u[i] = "."}) <= 1

\* A decimal numeral: a plain numeral, or one followed by an exponent
\* (e or E, an optional sign, digits).
IsDecimalNumeral(s) ==
    \/ IsPlainNumeral(s)
    \/ \E k \in 2..(Len(s) - 1) :
         /\ s[k] \in {"e", "E"}
         /\ IsPlainNumeral(SubSeq(s, 1, k - 1))
         /\ LET x == Unsigned(SubSeq(s, k + 1, Len(s)))
            IN  x # <<>> /\ \A i \in 1..Len(x) : IsDigitChar(x[i])

\* The names of the special values, in lower case, without sign.
SpecialNames ==
    { <<"i", "n", "f">>, <<"i", "n", "f", "i", "n", "i", "t", "y">>,
      <<"n", "a", "n">> }

LowerCased(s) ==
    [i \in 1..Len(s) |->
        CASE s[i] = "I" -> "i" [] s[i] = "N" -> "n" [] s[i] = "F" -> "f"
          [] s[i] = "A" -> "a" [] s[i] = "T" -> "t" [] s[i] = "Y" -> "y"
          [] OTHER -> s[i]]

RECURSIVE PlainCoefficient(_)
\* The digits of an unsigned plain numeral read as one natural number.
PlainCoefficient(u) ==
    IF u = <<>> THEN 0
    ELSE LET c == u[Len(u)]
             rest == PlainCoefficient(SubSeq(u, 1, Len(u) - 1))
         IN  IF c = "." THEN rest
             ELSE 10 * rest + (CHOOSE d \in 0..9 :
                    <<"0", "1", "2", "3", "4", "5", "6", "7", "8", "9">>[d + 1] = c)

\* How many digits of an unsigned plain numeral follow its decimal point.
PlainScale(u) ==
    IF \E i \in 1..Len(u) : u[i] = "."
    THEN Len(u) - (CHOOSE i \in 1..Len(u) : u[i] = ".")
    ELSE 0

\* Whether the amount a is the number (-1)^neg * coef / 10^scale.
IsNumber(a, neg, coef, scale) ==
    /\ a.kind = "float"
    /\ a.neg = neg
    /\ \E k \in 0..(scale + 8) :
         /\ a.exp = k - scale
         /\ a.coef * Pow10(k) = coef
         /\ (a.coef = 0 => k = scale)

---------------------------------------------------------------------------
(* Properties of the scan.  pageLog[p] holds the Lines of page p as they   *)
(* were given, hist[id] the page and the position of the Line that made    *)
(* record id.                                                              *)

\* The words of a Line from left to right (no two words of a Line share x0).
RECURSIVE LeftToRight(_)
LeftToRight(ws) ==
    IF ws = {} THEN <<>>
    ELSE LET w == CHOOSE w \in ws : \A v \in ws : w.x0 <= v.x0
         IN  <<w>> \o LeftToRight(ws \ {w})

InOrder(line) == LeftToRight(Range(line))

TextsInOrder(line) ==
    LET Of(ws) == [k \in 1..Len(ws) |-> ws[k].text] IN Of(InOrder(line))

LeftmostText(line) ==
    (CHOOSE w \in Range(line) : \A v \in Range(line) : w.x0 <= v.x0).text

Shape(t) == [i \in 1..Len(t) |-> IF IsDigitChar(t[i]) THEN "d" ELSE t[i]]

IsDDMMYY(t) == Shape(t) = <<"d", "d", "/", "d", "d", "/", "d", "d">>

IsHHMM(t) == Shape(t) = <<"d", "d", ":", "d", "d">>

TotalText == <<"T", "o", "t", "a", "l">>

DateLed(line) == IsDDMMYY(LeftmostText(line))

TotalLed(line) == LeftmostText(line) = TotalText

Pages == 1..Len(pageLog)

LineAt(p, k) == pageLog[p][k]

OpeningLine(id) == LineAt(hist[id].page, hist[id].line)

Emitted == Range(records)

\* The record being accumulated, if any.
OpenRecords == IF pc = "scan" /\ current # None THEN {current} ELSE {}

Scanned == pc \in {"write_csv", "write_excel", "done"}

DateLedOn(p) == {k \in 1..Len(pageLog[p]) : DateLed(LineAt(p, k))}

TransactionsOn(p) ==
    {i \in 1..Len(records) :
        heap[records[i]].Date # <<>> /\ heap[records[i]].Page = p}

\* C1: each Line whose leftmost fragment fully matches DD/MM/YY opens
\* exactly one new Transaction, any Record open at that moment having been
\* appended to the output first; so on every page the number of Date-led
\* Lines equals the number of emitted records with a non-empty Date (plus
\* the one still open during the scan), each Transaction is emitted exactly
\* once, and continuation and Total Lines add no Transaction.
C1_DateLineOpensOneTransaction ==
    /\ \A p \in Pages :
         /\ Cardinality(DateLedOn(p)) =
              Cardinality(TransactionsOn(p))
              + Cardinality({id \in OpenRecords : p = Len(pageLog)})
         /\ \A k \in DateLedOn(p) :
              /\ Cardinality({id \in DOMAIN heap :
                    hist[id] = [page |-> p, line |-> k]}) = 1
              /\ \A id \in DOMAIN heap :
                    hist[id] = [page |-> p, line |-> k] =>
                      /\ heap[id].Date = LeftmostText(LineAt(p, k))
                      /\ id \in Emitted \/ id \in OpenRecords
    /\ \A i, j \in 1..Len(records) : records[i] = records[j] => i = j
    /\ \A id \in DOMAIN heap :
         heap[id].Date # <<>> => DateLed(OpeningLine(id))

\* The scan has ended after a page of a Date-led Line, a continuation Line
\* and a second Date-led Line: two Transactions were emitted.
C1_Witness ==
    /\ Scanned
    /\ Len(pageLog) >= 1
    /\ Len(pageLog[1]) = 3
    /\ DateLedOn(1) = {1, 3}
    /\ ~TotalLed(LineAt(1, 2))
    /\ Cardinality(TransactionsOn(1)) = 2

AmountFields == {"Withdrawal", "Deposit", "Balance"}

\* C2: once Withdrawal, Deposit or Balance of a Transaction holds a
\* non-empty value, no later Line changes it: a continuation Line leaves
\* it as it is whatever falls in that band, and the record is emitted with
\* that value.
C2_FirstValueWins ==
    [][ /\ \A id \in DOMAIN heap : \A f \in AmountFields :
             heap[id][f] # <<>> =>
                 id \in DOMAIN heap' /\ heap'[id][f] = heap[id][f]
        /\ (current # None /\ Len(records') > Len(records)) =>
             \E i \in 1..Len(records') :
                 records'[i] = current /\ heap'[current] = heap[current]
      ]_vars

InBandW(x0) == 340 <= x0 /\ x0 <= 420

\* A continuation Line with a fragment in the Withdrawal band has just been
\* read into a Transaction whose Withdrawal was set on its opening line; the
\* field still holds the opening line's text.
C2_Witness ==
    /\ pc = "scan"
    /\ current # None
    /\ LET p == hist[current].page
           k == hist[current].line
       IN  /\ Len(pageLog[p]) = k + 1
           /\ \E w \in Range(LineAt(p, k)) :
                InBandW(w.x0) /\ heap[current].Withdrawal = w.text
           /\ \E w \in Range(LineAt(p, k + 1)) :
                InBandW(w.x0) /\ heap[current].Withdrawal # w.text

NoKeyText ==
    \A p \in Pages : \A k \in 1..Len(pageLog[p]) : \A w \in Range(LineAt(p, k)) :
        ~IsDDMMYY(w.text) /\ w.text # TotalText

\* C3: for a document (any number of pages, also none, also pages with no
\* fragment) in which no fragment's text matches the Date pattern or is
\* "Total", the Record sequence is empty and no error is raised.
C3_NoKeyNoRecords ==
    NoKeyText =>
        /\ records = <<>>
        /\ heap = <<>>
        /\ current = None
        /\ pc # "parse_failed"
        /\ Scanned => df = <<>>

\* The scan has ended on a document of an empty page and a page of two
\* Lines, none with a Date or "Total": the DataFrame is empty.
C3_Witness ==
    /\ Scanned
    /\ NoKeyText
    /\ Len(pageLog) = 2
    /\ pageLog[1] = <<>>
    /\ Len(pageLog[2]) = 2
    /\ df = <<>>

---------------------------------------------------------------------------
(* The Lines of a Transaction and the bands of their fragments.            *)

StopsAfter(p, k) ==
    {j \in (k + 1)..Len(pageLog[p]) : DateLed(LineAt(p, j)) \/ TotalLed(LineAt(p, j))}

\* The last continuation Line of the Transaction opened at Line k of page p
\* (k itself when it has none): the Line before the next Date-led or Total
\* Line, or the last Line of the page.
LastLineOf(p, k) ==
    IF StopsAfter(p, k) = {} THEN Len(pageLog[p])
    ELSE (CHOOSE j \in StopsAfter(p, k) : \A i \in StopsAfter(p, k) : j <= i) - 1

Tagged(ws, opening) ==
    [i \in 1..Len(ws) |-> [text |-> ws[i].text, x0 |-> ws[i].x0, opening |-> opening]]

\* The fragments of a continuation Line that are classified by band: all
\* but a leading HH:MM time.
ContinuationFragments(line) ==
    IF IsHHMM(LeftmostText(line)) THEN Tail(InOrder(line)) ELSE InOrder(line)

RECURSIVE FragmentsFrom(_, _, _)
FragmentsFrom(p, j, last) ==
    IF j > last THEN <<>>
    ELSE Tagged(ContinuationFragments(LineAt(p, j)), FALSE)
         \o FragmentsFrom(p, j + 1, last)

\* The classified fragments of Transaction id in reading order: those of
\* the opening line after the date, then those of each continuation Line.
Fragments(id) ==
    LET p == hist[id].page
        k == hist[id].line
    IN  Tagged(Tail(InOrder(LineAt(p, k))), TRUE)
        \o FragmentsFrom(p, k + 1, LastLineOf(p, k))

BandOf(x0) ==
    IF 340 <= x0 /\ x0 <= 420 THEN "Withdrawal"
    ELSE IF 420 < x0 /\ x0 <= 470 THEN "Deposit"
    ELSE IF 470 < x0 /\ x0 <= 540 THEN "Balance"
    ELSE IF x0 > 530 THEN "Branch"
    ELSE "Description"

RECURSIVE TextsAt(_, _, _)
\* The texts of the fragments fs whose index is in the set ks, in order.
TextsAt(fs, ks, i) ==
    IF i > Len(fs) THEN <<>>
    ELSE (IF i \in ks THEN <<fs[i].text>> ELSE <<>>) \o TextsAt(fs, ks, i + 1)

\* The texts of the fragments of Transaction id in the Description band.
DescriptionBandTexts(id) ==
    LET Of(fs) == TextsAt(fs, {i \in 1..Len(fs) : BandOf(fs[i].x0) = "Description"}, 1)
    IN  Of(Fragments(id))

\* The texts of the fragments of Transaction id that go to its Description:
\* those in the Description band, and those of a continuation Line with
\* x0 <= 530 in an amount band in which an earlier fragment of the
\* Transaction lies (the field is populated by then).
DescriptionTexts(id) ==
    LET Of(fs) ==
            TextsAt(fs,
                {i \in 1..Len(fs) :
                    \/ BandOf(fs[i].x0) = "Description"
                    \/ /\ ~fs[i].opening
                       /\ fs[i].x0 <= 530
                       /\ BandOf(fs[i].x0) \in AmountFields
                       /\ \E j \in 1..(i - 1) : BandOf(fs[j].x0) = BandOf(fs[i].x0)},
                1)
    IN  Of(Fragments(id))

Transactions == {id \in DOMAIN heap : heap[id].Date # <<>>}

ExampleOpening ==
    << [text |-> <<"0", "1", "/", "0", "2", "/", "2", "3">>, x0 |-> 40],
       [text |-> <<"G", "r", "o", "c", "e", "r", "y", " ", "S", "t", "o", "r", "e">>,
        x0 |-> 100],
       [text |-> <<"1", "5", "0", ".", "0", "0">>, x0 |-> 380] >>

ExampleContinuation ==
    << [text |-> <<"R", "e", "f", ":", " ", "9", "9", "9">>, x0 |-> 100] >>

ExampleDescription ==
    <<"G", "r", "o", "c", "e", "r", "y", " ", "S", "t", "o", "r", "e", " ",
      "R", "e", "f", ":", " ", "9", "9", "9">>

\* The example of C4: page 1 starts with the opening line and its
\* continuation, and the Transaction ends there.
ExampleScanned ==
    /\ Len(pageLog) >= 1
    /\ Len(pageLog[1]) >= 2
    /\ LineAt(1, 1) = ExampleOpening
    /\ LineAt(1, 2) = ExampleContinuation
    /\ LastLineOf(1, 1) = 2

ExampleHolds ==
    (Scanned /\ ExampleScanned) =>
        /\ df[1].Description = ExampleDescription
        /\ IsNumber(df[1].Withdrawal, FALSE, 150, 0)
        /\ df[1].Balance.kind = "absent"

\* C4 as stated: the emitted Description of a Transaction is the
\* whitespace-normalised single-space join of the Description-band fragment
\* texts of its opening line followed by those of each continuation Line.
C4_DescriptionOfBandTexts ==
    \A id \in Transactions \cap Emitted :
        heap[id].Description = Normalised(SpaceJoined(DescriptionBandTexts(id)))

\* C4, amended: the emitted Description of a Transaction is the
\* whitespace-normalised single-space join, in line order and left to right,
\* of the texts of its fragments that go to the Description: the
\* Description-band fragments and the continuation-Line fragments with
\* x0 <= 530 in an amount band whose field is already populated.  The
\* example of the claim holds as stated.
C4_DescriptionAccumulates ==
    /\ \A id \in Transactions :
         heap[id].Description = Normalised(SpaceJoined(DescriptionTexts(id)))
    /\ ExampleHolds

\* A Transaction has been emitted whose continuation Line had a fragment in
\* the populated Withdrawal band: its text is in the Description.
C4_Witness ==
    \E id \in Transactions \cap Emitted :
        /\ LastLineOf(hist[id].page, hist[id].line) > hist[id].line
        /\ DescriptionTexts(id) # DescriptionBandTexts(id)
        /\ DescriptionBandTexts(id) # <<>>
        /\ Len(heap[id].Description) > Len(ExampleDescription)

SummaryKinds ==
    { <<"W", "i", "t", "h", "d", "r", "a", "w", "a", "l">>,
      <<"D", "e", "p", "o", "s", "i", "t">> }

FieldOfKind(kind) == IF kind[1] = "W" THEN "Withdrawal" ELSE "Deposit"

\* The record the claim gives for a Total Line with the texts ts.
IsSummaryOf(rec, ts) ==
    /\ rec.Date = <<>>
    /\ rec.Balance = <<>>
    /\ IF Len(ts) >= 4 /\ ts[2] \in SummaryKinds
       THEN /\ rec.Description =
                TotalText \o <<" ">> \o ts[2]
                \o <<" ", "(", "c", "o", "u", "n", "t", ":", " ">> \o ts[3] \o <<")">>
            /\ rec[FieldOfKind(ts[2])] = ts[4]
            /\ \A f \in {"Withdrawal", "Deposit"} \ {FieldOfKind(ts[2])} : rec[f] = <<>>
       ELSE /\ rec.Description = Normalised(SpaceJoined(ts))
            /\ rec.Withdrawal = <<>>
            /\ rec.Deposit = <<>>

\* C5: a Line whose leftmost text is "Total" appends exactly one Summary
\* record with empty Date: with at least 4 fragments and second text K in
\* {Withdrawal, Deposit}, Description "Total K (count: <third>)", the fourth
\* text as the amount of field K, the other of the two and Balance absent;
\* otherwise the Description is the normalised space-join of all the Line's
\* texts and the three amounts are absent.
C5_TotalLineSummary ==
    \A p \in Pages : \A k \in 1..Len(pageLog[p]) :
        TotalLed(LineAt(p, k)) =>
            LET ids == {id \in DOMAIN heap : hist[id] = [page |-> p, line |-> k]}
                ts == TextsInOrder(LineAt(p, k))
            IN  /\ Cardinality(ids) = 1
                /\ \A id \in ids :
                     /\ Cardinality({i \in 1..Len(records) : records[i] = id}) = 1
                     /\ IsSummaryOf(heap[id], ts)
                     /\ Scanned =>
                          \A i \in 1..Len(records) : records[i] = id =>
                             /\ df[i].Balance.kind = "absent"
                             /\ \A f \in {"Withdrawal", "Deposit"} :
                                  (df[i][f].kind = "absent") <=>
                                     ~(/\ Len(ts) >= 4 /\ ts[2] \in SummaryKinds
                                       /\ f = FieldOfKind(ts[2])
                                       /\ IsPlainNumeral(ts[4]))

\* A "Total Deposit" Line of five fragments and a Total Line without a kind
\* have both been turned into Summary records.
C5_Witness ==
    /\ Scanned
    /\ \E i, j \in 1..Len(df) :
         /\ df[i].Date = <<>> /\ df[i].Deposit.kind = "float"
         /\ Len(OpeningLine(records[i])) = 5
         /\ df[j].Date = <<>> /\ df[j].Deposit.kind = "absent"
         /\ df[j].Withdrawal.kind = "absent"

Given(x) == x # "None" /\ x # ""

\* C6: an output file is written only after argument validation passed and
\* the extraction of the whole document completed; with neither --csv nor
\* --excel the run ends as a usage error with non-zero exit before the
\* document is opened, no file written; when opening or reading the
\* document fails the error ends the run and no file is written.
C6_OutputOnlyAfterExtraction ==
    /\ files # {} =>
         /\ Given(args.csv) \/ Given(args.excel)
         /\ pc \in {"write_excel", "done"}
         /\ Len(df) = Len(records)
    /\ \A f \in files : Given(args[f])
    /\ (pc # "start" /\ ~Given(args.csv) /\ ~Given(args.excel)) =>
         /\ pc = "usage_error"
         /\ exitCode > 0
         /\ files = {}
         /\ pagesDone = 0 /\ pageLog = <<>>
    /\ pc \in {"open_failed", "page_failed", "parse_failed"} =>
         exitCode > 0 /\ files = {}
    /\ pc = "done" =>
         exitCode = 0 /\ files = {f \in {"csv", "excel"} : Given(args[f])}

\* Reading the second page failed after a record had been extracted from
\* the first: the run has ended with an error and no file.
C6_Witness ==
    /\ pc = "page_failed"
    /\ Len(records) > 0
    /\ pagesDone = 1
    /\ Given(args.csv) /\ Given(args.excel)
    /\ files = {}

\* The records made so far and not yet appended to the output.
Unemitted == DOMAIN heap \ Emitted

\* C9 as stated: at every point of the scan of a page exactly one Record
\* is open.
C9_ExactlyOneOpen == pc = "scan" => Cardinality(Unemitted) = 1

\* C9, amended: at every point of the scan of a page at most one Record is
\* open (none before the page's first Date-led Line and none after a Total
\* Line), and an open Record is closed (appended to the output) only when a
\* Date-led Line starts, a Total Line starts, or the page ends.
C9_AtMostOneOpen ==
    /\ [](/\ Cardinality(Unemitted) <= 1
          /\ Unemitted = OpenRecords)
    /\ [][ \A id \in Unemitted :
              id \in Emitted' =>
                 /\ pc = "scan"
                 /\ \/ pc' = "pages"
                    \/ LET p == Len(pageLog)
                           n == Len(pageLog[p])
                       IN  /\ Len(pageLog') = p
                           /\ Len(pageLog'[p]) = n + 1
                           /\ \/ DateLed(pageLog'[p][n + 1])
                              \/ TotalLed(pageLog'[p][n + 1])
         ]_vars

\* A Transaction was closed by a Total Line, and then a Line was dropped
\* while no Record was open.
C9_Witness ==
    /\ pc = "scan"
    /\ Unemitted = {}
    /\ Len(pageLog) = 1
    /\ Len(pageLog[1]) = 3
    /\ DateLed(LineAt(1, 1))
    /\ TotalLed(LineAt(1, 2))
    /\ ~DateLed(LineAt(1, 3)) /\ ~TotalLed(LineAt(1, 3))
    /\ Len(records) = 2

Before(a, b) == a.page < b.page \/ (a.page = b.page /\ a.line < b.line)

\* C10: the output sequence is append-only and in encounter order: an
\* appended record keeps its position and all its fields; records appear in
\* the order of the Lines that opened them (pages in document order, Lines
\* top to bottom); each record's Page is the 1-based index of the page of
\* its opening Line, so Page is non-decreasing along the Statement.
C10_AppendOnlyInOrder ==
    /\ [][ /\ Len(records') >= Len(records)
           /\ \A i \in 1..Len(records) :
                /\ records'[i] = records[i]
                /\ heap'[records[i]] = heap[records[i]]
         ]_vars
    /\ [](/\ \A i, j \in 1..Len(records) :
               i < j => /\ Before(hist[records[i]], hist[records[j]])
                        /\ heap[records[i]].Page <= heap[records[j]].Page
          /\ \A i \in 1..Len(records) :
               heap[records[i]].Page = hist[records[i]].page
          /\ Scanned =>
               /\ Len(df) = Len(records)
               /\ \A i \in 1..Len(df) :
                    /\ df[i].Page = heap[records[i]].Page
                    /\ df[i].Date = heap[records[i]].Date
                    /\ df[i].Description = heap[records[i]].Description)

\* A Summary of page 1 and, after a continuation Line, a Transaction of
\* page 2 are in the Statement, in that order.
C10_Witness ==
    /\ Scanned
    /\ Len(df) = 2
    /\ df[1].Page = 1 /\ df[1].Date = <<>>
    /\ df[2].Page = 2 /\ df[2].Date # <<>>
    /\ Len(pageLog[2]) = 2

---------------------------------------------------------------------------
(* Where each classified fragment of a Transaction goes.                   *)

\* The fragments of Transaction id whose x0 is above the branch threshold.
Above530Texts(id) ==
    LET fs == Fragments(id)
    IN  TextsAt(fs, {i \in 1..Len(fs) : fs[i].x0 > 530}, 1)

\* The texts of the fragments of Transaction id that go to its Branch: those
\* with x0 > 530 that the Balance band does not take, that is x0 > 540, or
\* 530 < x0 <= 540 on a continuation Line when an earlier fragment of the
\* Transaction lies in the Balance band (Balance is populated by then).
BranchTexts(id) ==
    LET fs == Fragments(id)
    IN  TextsAt(fs,
            {i \in 1..Len(fs) :
                /\ fs[i].x0 > 530
                /\ \/ fs[i].x0 > 540
                   \/ /\ ~fs[i].opening
                      /\ \E j \in 1..(i - 1) : BandOf(fs[j].x0) = "Balance"},
            1)

\* C11 as stated: every classified fragment with x0 > 530, on the opening
\* line after the date or on a continuation Line after a leading time, is
\* classified as Branch: the Branch is the space-join of their texts.
C11_BranchAbove530 ==
    \A id \in Transactions :
        heap[id].Branch = Trimmed(SpaceJoined(Above530Texts(id)))

\* C11, amended: a classified fragment with x0 > 530 is classified as
\* Branch unless the Balance band (470 < x0 <= 540, tested first) takes it:
\* every fragment with x0 > 540 goes to Branch, and one with
\* 530 < x0 <= 540 sets Balance on the opening line, and on a continuation
\* Line sets Balance when it is empty and goes to Branch otherwise.  The
\* Branch is the space-join of the texts that go to it, in reading order.
C11_BranchUnlessBalance ==
    \A id \in Transactions :
        /\ heap[id].Branch = Trimmed(SpaceJoined(BranchTexts(id)))
        /\ (\E i \in 1..Len(Fragments(id)) :
                BandOf(Fragments(id)[i].x0) = "Balance")
             => heap[id].Balance # <<>>

\* A Transaction whose opening line has fragments at x0 531 and 540 (its
\* Balance) and 541, and whose continuation Line has them again: Branch
\* holds four texts, the two of 531 and 540 from the continuation only.
C11_Witness ==
    \E id \in Transactions \cap Emitted :
        /\ Len(Above530Texts(id)) = 6
        /\ Len(BranchTexts(id)) = 4
        /\ heap[id].Branch = <<"s", " ", "q", " ", "r", " ", "s">>
        /\ heap[id].Balance = <<"r">>

\* Transaction id has just been opened: its opening line is the last Line
\* read, so the record holds what the opening line gave it.
JustOpened(id) ==
    /\ pc = "scan"
    /\ current = id
    /\ hist[id].page = Len(pageLog)
    /\ hist[id].line = Len(pageLog[Len(pageLog)])

\* The fragments of the opening line of Transaction id after the date.
OpeningFragments(id) == Tail(InOrder(OpeningLine(id)))

OpeningTexts(id, band) ==
    LET fs == OpeningFragments(id)
    IN  TextsAt(fs, {i \in 1..Len(fs) : BandOf(fs[i].x0) = band}, 1)

\* C12: on an opening Date line every fragment after the date goes to
\* exactly one of Withdrawal, Deposit, Balance, Branch, Description:
\* Withdrawal iff 340 <= x0 <= 420, Deposit iff 420 < x0 <= 470, Balance iff
\* 470 < x0 <= 540 (so 420 is Withdrawal, 470 is Deposit, x0 < 340 is
\* Description).  An amount field holds a text of its band and is empty when
\* the band is; Description and Branch hold exactly the texts of theirs.
C12_OpeningBands ==
    \A id \in Transactions :
        /\ \A f \in AmountFields :
             OpeningTexts(id, f) # <<>> => heap[id][f] \in Range(OpeningTexts(id, f))
        /\ JustOpened(id) =>
             /\ \A f \in AmountFields :
                  OpeningTexts(id, f) = <<>> => heap[id][f] = <<>>
             /\ heap[id].Description =
                    Normalised(SpaceJoined(OpeningTexts(id, "Description")))
             /\ heap[id].Branch = Trimmed(SpaceJoined(OpeningTexts(id, "Branch")))
             /\ heap[id].Time = <<>>

\* The line with fragments at 421, 470 and 471 has just opened a
\* Transaction (Deposit the text at 470, Balance the one at 471), after the
\* line with fragments at 339, 340 and 420 was emitted with the text at 420
\* as its Withdrawal and the one at 339 as its Description.
C12_Witness ==
    /\ current # None
    /\ JustOpened(current)
    /\ heap[current].Deposit = <<"q">>
    /\ heap[current].Balance = <<"r">>
    /\ heap[current].Withdrawal = <<>>
    /\ \E id \in Transactions \cap Emitted :
         /\ heap[id].Withdrawal = <<"r">>
         /\ heap[id].Deposit = <<>>
         /\ heap[id].Description = <<"p">>
         /\ Len(OpeningFragments(id)) = 3

---------------------------------------------------------------------------
(* The grouping of a page's fragments into Lines.                          *)

Occurrences(ws, w) == Cardinality({i \in 1..Len(ws) : ws[i] = w})

RECURSIVE Concatenated(_)
Concatenated(ls) ==
    IF ls = <<>> THEN <<>> ELSE Head(ls).words \o Concatenated(Tail(ls))

\* a is not after b in the order by (top, x0).
NotAfter(a, b) == a.top < b.top \/ (a.top = b.top /\ a.x0 <= b.x0)

Distance(a, b) == IF a >= b THEN a - b ELSE b - a

\* C13: the fragments are sorted by (top, x0) and grouped in one greedy
\* pass: the Lines partition the fragments, order preserved; every
\* fragment of a Line has a top within 1.5 (3 half points) of the top of
\* the Line's first fragment, the Line's reference; the first fragment of
\* every later Line has a top more than 1.5 away from the reference of the
\* Line before it.
C13_GreedyGrouping ==
    fpc = "grouped" =>
        LET sorted == result[1]
            lines == result[2]
        IN  /\ Len(sorted) = Len(arg)
            /\ \A w \in Range(arg) : Occurrences(sorted, w) = Occurrences(arg, w)
            /\ \A i \in 1..(Len(sorted) - 1) : NotAfter(sorted[i], sorted[i + 1])
            /\ Concatenated(lines) = sorted
            /\ \A k \in 1..Len(lines) :
                 /\ lines[k].words # <<>>
                 /\ lines[k].top = lines[k].words[1].top
                 /\ \A w \in Range(lines[k].words) :
                      Distance(w.top, lines[k].words[1].top) <= 3
                 /\ k > 1 =>
                      Distance(lines[k].words[1].top, lines[k - 1].words[1].top) > 3

\* Fragments with tops 0, 1.5 and 3.0, given out of order: the third is
\* within 1.5 of the second but not of the reference, and starts a Line.
C13_Witness ==
    /\ fpc = "grouped"
    /\ arg = <<WT(40, 6), WT(100, 0), WT(40, 3)>>
    /\ Len(result[2]) = 2
    /\ result[2][1].words = <<WT(100, 0), WT(40, 3)>>
    /\ result[2][2].words = <<WT(40, 6)>>

---------------------------------------------------------------------------
(* Summaries, pages and the two kinds of record.                           *)

\* The Line that the step reads, when the step reads one.
ReadsLine ==
    /\ pageLog # <<>>
    /\ Len(pageLog') = Len(pageLog)
    /\ Len(pageLog'[Len(pageLog)]) = Len(pageLog[Len(pageLog)]) + 1

LineRead == pageLog'[Len(pageLog)][Len(pageLog[Len(pageLog)]) + 1]

KeyLines(p) ==
    {j \in 1..Len(pageLog[p]) : DateLed(LineAt(p, j)) \/ TotalLed(LineAt(p, j))}

\* The last Date-led or Total-led Line read on page p is a Total Line.
AfterTotal(p) ==
    /\ KeyLines(p) # {}
    /\ TotalLed(LineAt(p, CHOOSE j \in KeyLines(p) : \A i \in KeyLines(p) : i <= j))

\* The records of the set ids (at most one) as a sequence.
AsSequence(ids) == IF ids = {} THEN <<>> ELSE <<CHOOSE id \in ids : TRUE>>

\* C14: a Total Line first appends the open Record, if any, then appends
\* the Summary, and leaves no Record open; every following Line of the
\* page that is neither Date-led nor Total-led is dropped, changing neither
\* the Summary nor any other record, until a Date-led Line opens a
\* Transaction.
C14_SummaryNeverAccumulates ==
    [][ ReadsLine =>
          /\ TotalLed(LineRead) =>
                /\ Len(heap') = Len(heap) + 1
                /\ heap'[Len(heap')].Date = <<>>
                /\ records' = records \o AsSequence(Unemitted) \o <<Len(heap')>>
                /\ Unemitted' = {}
                /\ \A id \in DOMAIN heap : heap'[id] = heap[id]
          /\ (AfterTotal(Len(pageLog)) /\ ~DateLed(LineRead) /\ ~TotalLed(LineRead)) =>
                /\ heap' = heap
                /\ records' = records
                /\ Unemitted' = {}
          /\ (AfterTotal(Len(pageLog)) /\ DateLed(LineRead)) =>
                /\ Unemitted' = {Len(heap')}
                /\ heap'[Len(heap')].Date # <<>>
      ]_vars

\* The scan has ended on a page of a Date-led Line, the Line "Total
\* Withdrawal 12 4500.00" and a Line with neither key: the Transaction and
\* the Summary are the Statement, the Summary as the Total Line made it.
C14_Witness ==
    /\ Scanned
    /\ Len(pageLog) = 1
    /\ Len(pageLog[1]) = 3
    /\ DateLed(LineAt(1, 1))
    /\ TotalLed(LineAt(1, 2))
    /\ ~DateLed(LineAt(1, 3)) /\ ~TotalLed(LineAt(1, 3))
    /\ Len(df) = 2
    /\ df[1].Date # <<>>
    /\ df[2].Date = <<>>
    /\ df[2].Description = TotalText \o <<" ", "W", "i", "t", "h", "d", "r", "a", "w", "a", "l",
                                         " ", "(", "c", "o", "u", "n", "t", ":", " ", "1", "2", ")">>

\* C15: the open Record never crosses a page boundary: at the end of a page
\* the open Record is appended to the output and the next page starts with
\* none open; a record of an earlier page is never modified by a Line of a
\* later page; and the Lines of a page before its first Date-led or
\* Total-led Line are dropped, also when the page before ended with an open
\* Transaction.
C15_NoRecordAcrossPages ==
    /\ []((pc = "pages" \/ Scanned) => Unemitted = {})
    /\ []((pc = "scan" /\ pageLog[Len(pageLog)] = <<>>) => Unemitted = {})
    /\ [][ ReadsLine =>
              /\ \A id \in DOMAIN heap :
                   hist[id].page < Len(pageLog) =>
                      id \in Emitted /\ heap'[id] = heap[id]
              /\ (/\ KeyLines(Len(pageLog)) = {}
                  /\ ~DateLed(LineRead) /\ ~TotalLed(LineRead)) =>
                   /\ heap' = heap
                   /\ records' = records
                   /\ Unemitted' = {}
         ]_vars

\* Page 1 ended with the Transaction of "01/02/23 Grocery Store 150.00"
\* open, and page 2 was the single Line "Ref: 999": the Statement holds the
\* Transaction with the Description of its opening line only.
C15_Witness ==
    /\ Scanned
    /\ Len(pageLog) = 2
    /\ pageLog[1] = <<ExampleOpening>>
    /\ pageLog[2] = <<ExampleContinuation>>
    /\ Len(df) = 1
    /\ df[1].Page = 1
    /\ df[1].Description =
          <<"G", "r", "o", "c", "e", "r", "y", " ", "S", "t", "o", "r", "e">>

BeginsWith(s, prefix) ==
    Len(s) >= Len(prefix) /\ SubSeq(s, 1, Len(prefix)) = prefix

\* C16: every record is structurally a Transaction or a Summary: its Date
\* fully matches dd/dd/dd, or its Date, Time and Branch are empty, its
\* Balance is absent, at most one of Withdrawal and Deposit is present and
\* its Description starts with "Total"; the same holds of the rows of the
\* final Statement.  A record with an empty Date comes from a Total Line
\* only.
C16_TransactionOrSummary ==
    /\ \A id \in DOMAIN heap :
         /\ \/ IsDDMMYY(heap[id].Date)
            \/ /\ heap[id].Date = <<>>
               /\ heap[id].Time = <<>>
               /\ heap[id].Branch = <<>>
               /\ heap[id].Balance = <<>>
               /\ heap[id].Withdrawal = <<>> \/ heap[id].Deposit = <<>>
               /\ BeginsWith(heap[id].Description, TotalText)
         /\ heap[id].Date = <<>> <=> TotalLed(OpeningLine(id))
    /\ Scanned =>
         \A i \in 1..Len(df) :
            \/ IsDDMMYY(df[i].Date)
            \/ /\ df[i].Date = <<>>
               /\ df[i].Time = <<>>
               /\ df[i].Branch = <<>>
               /\ df[i].Balance.kind = "absent"
               /\ df[i].Withdrawal.kind = "absent" \/ df[i].Deposit.kind = "absent"
               /\ BeginsWith(df[i].Description, TotalText)

\* The Statement holds a Transaction with a Time and a Branch, the plain
\* Summary of "Total abc 12 4500.00" and the Summary of a Total Deposit
\* Line that has a fragment right of the branch threshold.
C16_Witness ==
    /\ Scanned
    /\ \E i, j, k \in 1..Len(df) :
         /\ IsDDMMYY(df[i].Date) /\ df[i].Branch # <<>>
         /\ df[j].Date = <<>>
         /\ df[j].Description = <<"T", "o", "t", "a", "l", " ", "a", "b", "c", " ", "1", "2",
                                   " ", "4", "5", "0", "0", ".", "0", "0">>
         /\ df[k].Date = <<>>
         /\ df[k].Deposit.kind = "float"
         /\ \E w \in Range(OpeningLine(records[k])) : w.x0 > 530

---------------------------------------------------------------------------
(* Amount bands that are already populated, and the Time.                  *)

\* The fragments fs in the amount band f, by index.
InBand(fs, f) == {i \in 1..Len(fs) : BandOf(fs[i].x0) = f}

\* The continuation-Line fragments among fs (the classified fragments of
\* a Transaction in reading order) that lie in an amount band whose field
\* is populated when they are read: an earlier fragment lies in the band.
FallThrough(fs) ==
    {i \in 1..Len(fs) :
        /\ ~fs[i].opening
        /\ BandOf(fs[i].x0) \in AmountFields
        /\ \E j \in 1..(i - 1) : BandOf(fs[j].x0) = BandOf(fs[i].x0)}

\* The text that populates field f: on the opening line the last fragment
\* of the band, else the first fragment of the band on a continuation
\* Line, else none.
PopulatingText(fs, f) ==
    LET onOpening == {i \in 1..Len(fs) : fs[i].opening /\ BandOf(fs[i].x0) = f}
    IN  IF onOpening # {}
        THEN fs[CHOOSE i \in onOpening : \A j \in onOpening : j <= i].text
        ELSE IF InBand(fs, f) # {}
        THEN fs[CHOOSE i \in InBand(fs, f) : \A j \in InBand(fs, f) : i <= j].text
        ELSE <<>>

\* The texts that go to the Description (toBranch FALSE) or to the Branch
\* (toBranch TRUE): those of its own band and those that fall through from
\* a populated amount band, x0 <= 530 to the Description and x0 > 530 to
\* the Branch.
TextsWithFallThrough(fs, toBranch) ==
    TextsAt(fs,
        {i \in 1..Len(fs) :
            \/ BandOf(fs[i].x0) = (IF toBranch THEN "Branch" ELSE "Description")
            \/ i \in FallThrough(fs) /\ (toBranch <=> fs[i].x0 > 530)},
        1)

\* C17: a continuation-Line fragment in an amount band whose field is
\* already populated is not discarded: its text is appended to the
\* Description, or to the Branch when x0 > 530 (the Balance band in
\* 530 < x0 <= 540), and the field keeps its value.  So of two fragments
\* of one continuation Line in the same empty band the leftmost sets the
\* field and the second goes to Description or Branch.
C17_FallThroughKept ==
    \A id \in Transactions : \A fs \in {Fragments(id)} :
        /\ \A f \in AmountFields : heap[id][f] = PopulatingText(fs, f)
        /\ FallThrough(fs) # {} =>
             /\ heap[id].Description =
                    Normalised(SpaceJoined(TextsWithFallThrough(fs, FALSE)))
             /\ heap[id].Branch =
                    Trimmed(SpaceJoined(TextsWithFallThrough(fs, TRUE)))

\* A Transaction opened by a date alone, continued by a Line with fragments
\* at 340 and 420 and by one with fragments at 531, 540 and 541: the
\* leftmost of each band set Withdrawal and Balance, the text at 420 went
\* to the Description and the text at 540 to the Branch.
C17_Witness ==
    \E id \in Transactions \cap Emitted :
        /\ Len(OpeningLine(id)) = 1
        /\ Cardinality(FallThrough(Fragments(id))) = 2
        /\ heap[id].Withdrawal = <<"p">>
        /\ heap[id].Description = <<"q">>
        /\ heap[id].Balance = <<"q">>
        /\ heap[id].Branch = <<"r", " ", "s">>

\* The words of a text: its runs between whitespace.
Words(s) == Range(WordsOf(s, <<>>, <<>>))

\* The text t is nowhere in the record: it is none of its fields and no
\* word of its Description or Branch.
Nowhere(rec, t) ==
    /\ \A f \in {"Date", "Time", "Withdrawal", "Deposit", "Balance"} : rec[f] # t
    /\ t \notin Words(rec.Description)
    /\ t \notin Words(rec.Branch)

\* C18: on the opening Date line the amount fields are last-value-wins:
\* when two or more fragments of the opening line lie in one amount band,
\* the field holds the text of the rightmost, and (while the record holds
\* its opening line only) the earlier texts are nowhere in the record.
C18_OpeningLastWins ==
    \A id \in Transactions : \A fs \in {OpeningFragments(id)} :
        \A f \in AmountFields :
            \A i, j \in InBand(fs, f) :
                (i < j /\ \A k \in InBand(fs, f) : k <= j) =>
                    /\ heap[id][f] = fs[j].text
                    /\ LastLineOf(hist[id].page, hist[id].line) = hist[id].line
                         => Nowhere(heap[id], fs[i].text)

\* The line with fragments at 530, 531, 540 and 541 has just opened a
\* Transaction: its Balance is the text at 540, the texts at 530 and 531
\* are lost.
C18_Witness ==
    /\ current # None
    /\ JustOpened(current)
    /\ Cardinality(InBand(OpeningFragments(current), "Balance")) = 3
    /\ heap[current].Balance = <<"r">>
    /\ heap[current].Branch = <<"s">>
    /\ heap[current].Description = <<>>

\* The continuation Lines of the Transaction opened at Line k of page p
\* whose leftmost fragment is an HH:MM time.
TimeLed(p, k) ==
    {j \in (k + 1)..LastLineOf(p, k) : IsHHMM(LeftmostText(LineAt(p, j)))}

\* The Time of the Transaction opened at Line k of page p: the leftmost
\* text of its last time-led continuation Line, empty when it has none.
TimeOf(p, k) ==
    IF TimeLed(p, k) = {} THEN <<>>
    ELSE LeftmostText(LineAt(p, CHOOSE j \in TimeLed(p, k) : \A i \in TimeLed(p, k) : i <= j))

\* C19: the Time of a Transaction is set only from the leftmost fragment of
\* a continuation Line that fully matches HH:MM, last value wins, and that
\* fragment is not classified by band; a time-shaped fragment on the
\* opening line, or not leftmost on its Line, is classified by its band and
\* never stored in Time, so a Transaction without a time-led continuation
\* Line has empty Time.
C19_TimeFromContinuation ==
    \A id \in Transactions : \A fs \in {Fragments(id)} :
        /\ heap[id].Time = TimeOf(hist[id].page, hist[id].line)
        /\ heap[id].Description =
               Normalised(SpaceJoined(TextsWithFallThrough(fs, FALSE)))

\* A Transaction whose opening line has the time-shaped text "09:15" at
\* x0 100, continued by a Line led by "09:15" and then one led by "10:30":
\* its Time is "10:30", and "09:15" is in its Description once, from the
\* opening line.
C19_Witness ==
    \E id \in Transactions \cap Emitted :
        /\ Cardinality(TimeLed(hist[id].page, hist[id].line)) = 2
        /\ heap[id].Time = <<"1", "0", ":", "3", "0">>
        /\ \E w \in Range(OpeningLine(id)) : IsHHMM(w.text)
        /\ heap[id].Description = <<"0", "9", ":", "1", "5", " ", "q">>

=============================================================================
